---- MODULE Spec2Model ----
(***************************************************************************)
(* Model of backend.py, the telemedicine backend: the in-memory doctor     *)
(* registry (doctors), the pending-call store (pending_calls), and the     *)
(* request handlers that read and write them.                              *)
(*                                                                         *)
(* A Python dict is modelled as a sequence of [key, val] entries in        *)
(* insertion order.  Every dict object stored in doctors carries a ghost   *)
(* field ref, its object identity, because initiate_call looks its targets *)
(* up again with "doc is d".  time.time() is the integer clock now.  The   *)
(* variable resp holds the last response, status being its HTTP status.    *)
(* Under Spec each request is handled from start to end before the next    *)
(* one starts.  SpecWindows is the same with the clock stepping to the     *)
(* seconds around the 90 s and 120 s cutoffs.  Under SpecThreads the       *)
(* handlers run step by step in worker threads and their steps interleave. *)
(***************************************************************************)
EXTENDS Integers, Sequences, FiniteSets, TLC

\* ---------------------------------------------------------------- inputs
None == "<None>"
\* ids a client may send as doctor_id and that uuid4()[:8] may draw; the code
\* never compares a drawn id with the ids in use
DoctorIds == {"d1", "d2"}
CallIds == {"c1", "c2"}
\* FCM tokens and names as sent, before strip()
RawTokens == {"t1", " t2 "}
Names == {"Ann "}
\* patient_name; patient_id and symptom travel with it unchanged
Patients == {"p1"}
\* seconds that may pass between two requests
TickSteps == {89, 90}
\* the seconds on both sides of the liveness and of the pending cutoff
WindowSteps == {89, 90, 91, 119, 120, 121}
WindowTokens == {"t1"}
MaxTicks == 1
\* requests that may change the registry or the store; reads are not counted
MaxUpdates == 3

\* what the push gateway (and the token exchange before it) can answer to
\* one send_fcm call
Outcomes == {"Delivered", "Rejected", "Unregistered", "NoToken", "Timeout"}

LivenessWindow == 90
PendingWindow == 120

\* the worker threads that can run a request each
MaxThreads == 2
Threads == 1..MaxThreads
\* what the gateway answers to a push of a call running in a thread
ThreadOutcomes == {"Delivered", "Unregistered"}

VARIABLES SERVICE_ACCOUNT_JSON, doctors, pending_calls, now, ticks, updates, resp,
          threads

vars == <<SERVICE_ACCOUNT_JSON, doctors, pending_calls, now, ticks, updates, resp,
          threads>>

\* ------------------------------------------------------- python helpers
\* truthiness of an Optional[str]
Truthy(x) == x # None /\ x # ""

\* str.strip() on the strings the model draws
Strip(s) ==
  CASE s = " t2 " -> "t2"
    [] s = "Ann " -> "Ann"
    [] OTHER -> s

DictKeys(dict) == {dict[i].key : i \in 1..Len(dict)}

DictIndex(dict, k) == CHOOSE i \in 1..Len(dict) : dict[i].key = k

DictGet(dict, k) == dict[DictIndex(dict, k)].val

\* a dict assignment that would not look for the key first
DictSetAppend(dict, k, v) == Append(dict, [key |-> k, val |-> v])

\* dict[k] = v : a known key keeps its position, a new key goes last
DictSet(dict, k, v) ==
  IF k \in DictKeys(dict)
  THEN [dict EXCEPT ![DictIndex(dict, k)] = [key |-> k, val |-> v]]
  ELSE Append(dict, [key |-> k, val |-> v])

\* del dict[k] / dict.pop(k, None)
DictDel(dict, k) == SelectSeq(dict, LAMBDA e : e.key # k)

\* ------------------------------------------------------------- helpers
\* an online list that would forget the cutoff
_online_doctors_all(docs, t) == docs

\* _online_doctors(): the entries whose last_seen is newer than now - 90
_online_doctors(docs, t) ==
  LET cutoff == t - LivenessWindow
  IN SelectSeq(docs, LAMBDA e : e.val.last_seen > cutoff)

\* get_access_token(): None when the credential is missing, or when the
\* credential cannot be parsed or refreshed (answer "NoToken")
get_access_token(sa, answer) ==
  IF sa = "" THEN None
  ELSE IF answer = "NoToken" THEN None
  ELSE "at"

\* a send_fcm that would leave a dead token registered
remove_dead_tokens_none(docs, token) == docs

\* send_fcm, "Remove dead tokens": every doctor registered with this token
remove_dead_tokens(docs, token) ==
  SelectSeq(docs, LAMBDA e : e.val.token # token)

\* a send_fcm that would remove one doctor only for a dead token
send_fcm_first(token, answer, docs, sa) ==
  LET at == get_access_token(sa, answer)
      first == CHOOSE i \in 1..Len(docs) :
                 /\ docs[i].val.token = token
                 /\ \A j \in 1..(i - 1) : docs[j].val.token # token
  IN IF at = None
     THEN [ok |-> FALSE, raised |-> FALSE, doctors |-> docs, outcome |-> "NoToken"]
     ELSE CASE answer = "Timeout" ->
                 [ok |-> FALSE, raised |-> TRUE, doctors |-> docs, outcome |-> answer]
            [] answer = "Delivered" ->
                 [ok |-> TRUE, raised |-> FALSE, doctors |-> docs, outcome |-> answer]
            [] answer = "Unregistered" ->
                 [ok |-> FALSE, raised |-> FALSE,
                  doctors |-> IF \E i \in 1..Len(docs) : docs[i].val.token = token
                              THEN DictDel(docs, docs[first].key)
                              ELSE docs,
                  outcome |-> answer]
            [] OTHER ->
                 [ok |-> FALSE, raised |-> FALSE, doctors |-> docs, outcome |-> answer]

\* send_fcm(token, ...): answer is what the gateway does with this request.
\* raised: requests.post raised (timeout=10), which send_fcm does not catch.
send_fcm(token, answer, docs, sa) ==
  LET at == get_access_token(sa, answer)
  IN IF at = None
     THEN [ok |-> FALSE, raised |-> FALSE, doctors |-> docs, outcome |-> "NoToken"]
     ELSE CASE answer = "Timeout" ->
                 [ok |-> FALSE, raised |-> TRUE, doctors |-> docs, outcome |-> answer]
            [] answer = "Delivered" ->
                 [ok |-> TRUE, raised |-> FALSE, doctors |-> docs, outcome |-> answer]
            [] answer = "Unregistered" ->
                 [ok |-> FALSE, raised |-> FALSE,
                  doctors |-> remove_dead_tokens(docs, token), outcome |-> answer]
            [] OTHER ->
                 [ok |-> FALSE, raised |-> FALSE, doctors |-> docs, outcome |-> answer]

\* an initiate_call that would not look at the credential
gateway_configured_always(sa) == TRUE

\* `not SERVICE_ACCOUNT_JSON` fails the call before any delivery
gateway_configured(sa) == sa # ""

\* video_call_url = f"https://meet.jit.si/ai-dobot-{call_id}"
video_call_url(call_id) == <<"https://meet.jit.si/ai-dobot-", call_id>>

\* the pending_calls key call_id + "_" + target_id
PendingKey(call_id, target_id) == <<call_id, "_", target_id>>

\* targets of initiate_call: the dict objects, each with its registry key
resolve_targets(call_doctor_id, docs, online) ==
  IF Truthy(call_doctor_id) /\ call_doctor_id \in DictKeys(docs)
  THEN <<docs[DictIndex(docs, call_doctor_id)]>>
  ELSE [i \in 1..Len(online) |-> docs[DictIndex(docs, online[i].key)]]

\* the first loop of initiate_call: one send_fcm per target, in order
RECURSIVE SendLoop(_, _, _, _, _, _, _)
SendLoop(targets, answers, i, docs, sa, success, log) ==
  IF i > Len(targets)
  THEN [doctors |-> docs, success |-> success, raised |-> FALSE, log |-> log]
  ELSE LET r == send_fcm(targets[i].val.token, answers[i], docs, sa)
       IN IF r.raised
          THEN [doctors |-> r.doctors, success |-> success, raised |-> TRUE,
                log |-> Append(log, r.outcome)]
          ELSE SendLoop(targets, answers, i + 1, r.doctors, sa,
                        success + (IF r.ok THEN 1 ELSE 0), Append(log, r.outcome))

\* next((did for did, doc in doctors.items() if doc is d), None)
FindByIdentity(docs, d) ==
  IF \E i \in 1..Len(docs) : docs[i].val.ref = d.val.ref
  THEN docs[CHOOSE i \in 1..Len(docs) : docs[i].val.ref = d.val.ref].key
  ELSE None

\* the second loop of initiate_call: "Store pending so polling catches what
\* FCM misses"
RECURSIVE StoreLoop(_, _, _, _, _, _, _, _)
StoreLoop(targets, i, docs, pend, call_id, patient, t, written) ==
  IF i > Len(targets)
  THEN [pending_calls |-> pend, written |-> written]
  ELSE LET target_id == FindByIdentity(docs, targets[i])
       IN IF Truthy(target_id)
          THEN StoreLoop(targets, i + 1, docs,
                 DictSet(pend, PendingKey(call_id, target_id),
                         [doctor_id |-> target_id,
                          patient_name |-> patient,
                          video_call_url |-> video_call_url(call_id),
                          created_at |-> t]),
                 call_id, patient, t,
                 written \cup {PendingKey(call_id, target_id)})
          ELSE StoreLoop(targets, i + 1, docs, pend, call_id, patient, t, written)

NoCall(call_doctor_id, status, error) ==
  [op |-> "initiate_call", doctor_id |-> call_doctor_id, status |-> status,
   error |-> error, call_id |-> None, video_call_url |-> <<>>,
   delivered |-> 0, attempted |-> 0, targets |-> <<>>, outcomes |-> <<>>,
   written |-> {}]

\* initiate_call(call): the new registry, the new store and the response
initiate_call(call_doctor_id, patient, uuid, answers, docs, pend, sa, t) ==
  LET online == _online_doctors(docs, t)
  IN IF Len(online) = 0
     THEN [doctors |-> docs, pending_calls |-> pend,
           resp |-> NoCall(call_doctor_id, 503, "Unavailable")]
     ELSE IF ~gateway_configured(sa)
     THEN [doctors |-> docs, pending_calls |-> pend,
           resp |-> NoCall(call_doctor_id, 500, "GatewayUnconfigured")]
     ELSE LET targets == resolve_targets(call_doctor_id, docs, online)
              sent == SendLoop(targets, answers, 1, docs, sa, 0, <<>>)
          IN IF sent.raised
             THEN [doctors |-> sent.doctors, pending_calls |-> pend,
                   resp |-> [op |-> "initiate_call", doctor_id |-> call_doctor_id,
                             status |-> 500, error |-> "Unhandled",
                             call_id |-> None, video_call_url |-> <<>>,
                             delivered |-> 0, attempted |-> Len(sent.log),
                             targets |-> targets, outcomes |-> sent.log,
                             written |-> {}]]
             ELSE LET stored == StoreLoop(targets, 1, sent.doctors, pend, uuid,
                                          patient, t, {})
                  IN [doctors |-> sent.doctors,
                      pending_calls |-> stored.pending_calls,
                      resp |-> [op |-> "initiate_call", doctor_id |-> call_doctor_id,
                                status |-> 200, error |-> None, call_id |-> uuid,
                                video_call_url |-> video_call_url(uuid),
                                delivered |-> sent.success,
                                attempted |-> Len(targets),
                                targets |-> targets, outcomes |-> sent.log,
                                written |-> stored.written]]

\* a sign-in that would always mint
signin_id_minted(supplied, uuid) == uuid

\* doctor_id = data.doctor_id or str(uuid.uuid4())[:8]
signin_id(supplied, uuid) == IF Truthy(supplied) THEN supplied ELSE uuid

\* doctor_signin(data): ref is the identity of the dict the handler creates
doctor_signin(supplied, uuid, name, token, docs, t, ref) ==
  LET doctor_id == signin_id(supplied, uuid)
      after == DictSet(docs, doctor_id,
                       [name |-> Strip(name), token |-> Strip(token),
                        signed_in_at |-> t, last_seen |-> t, ref |-> ref])
  IN [doctors |-> after,
      resp |-> [op |-> "doctor_signin", supplied |-> supplied,
                status |-> 200, doctor_id |-> doctor_id,
                doctors_online |-> Len(_online_doctors(after, t)),
                known |-> doctor_id \in DictKeys(docs),
                was_online |-> doctor_id \in DictKeys(_online_doctors(docs, t)),
                minted |-> IF Truthy(supplied) THEN None ELSE uuid]]

\* a heartbeat that registers the id it does not find
doctor_heartbeat_upsert(doctor_id, docs, t) ==
  LET after == IF doctor_id \in DictKeys(docs)
               THEN [docs EXCEPT ![DictIndex(docs, doctor_id)].val.last_seen = t]
               ELSE Append(docs, [key |-> doctor_id,
                                  val |-> [name |-> "", token |-> "",
                                           signed_in_at |-> t, last_seen |-> t,
                                           ref |-> 0]])
  IN [doctors |-> after,
      resp |-> [op |-> "doctor_heartbeat", doctor_id |-> doctor_id,
                status |-> 200,
                doctors_online |-> Len(_online_doctors(after, t)),
                was_online |-> doctor_id \in DictKeys(_online_doctors(docs, t))]]

\* doctor_heartbeat(data); was_online records whether the id was online
\* when the request arrived
doctor_heartbeat(doctor_id, docs, t) ==
  IF doctor_id \in DictKeys(docs)
  THEN LET after == [docs EXCEPT ![DictIndex(docs, doctor_id)].val.last_seen = t]
       IN [doctors |-> after,
           resp |-> [op |-> "doctor_heartbeat", doctor_id |-> doctor_id,
                     status |-> 200,
                     doctors_online |-> Len(_online_doctors(after, t)),
                     was_online |-> doctor_id \in DictKeys(_online_doctors(docs, t))]]
  ELSE [doctors |-> docs,
        resp |-> [op |-> "doctor_heartbeat", doctor_id |-> doctor_id,
                  status |-> 404, doctors_online |-> 0, was_online |-> FALSE]]

\* a signout that answers 404 for an id it does not find
doctor_signout_strict(doctor_id, docs, t) ==
  LET after == IF doctor_id \in DictKeys(docs) THEN DictDel(docs, doctor_id) ELSE docs
  IN [doctors |-> after,
      resp |-> [op |-> "doctor_signout", doctor_id |-> doctor_id,
                status |-> IF doctor_id \in DictKeys(docs) THEN 200 ELSE 404,
                doctors_online |-> Len(_online_doctors(after, t)),
                known |-> doctor_id \in DictKeys(docs)]]

\* doctor_signout(data); known records whether the id was registered when
\* the request arrived
doctor_signout(doctor_id, docs, t) ==
  LET after == IF doctor_id \in DictKeys(docs) THEN DictDel(docs, doctor_id) ELSE docs
  IN [doctors |-> after,
      resp |-> [op |-> "doctor_signout", doctor_id |-> doctor_id,
                status |-> 200,
                doctors_online |-> Len(_online_doctors(after, t)),
                known |-> doctor_id \in DictKeys(docs)]]

\* an online list that keeps a target on the last instant of its window
get_online_doctors_inclusive(docs, t) ==
  LET online == SelectSeq(docs, LAMBDA e : e.val.last_seen >= t - LivenessWindow)
      safe == [i \in 1..Len(online) |->
                 [doctor_id |-> online[i].key, name |-> online[i].val.name,
                  signed_in_at |-> online[i].val.signed_in_at,
                  last_seen |-> online[i].val.last_seen, available |-> TRUE]]
  IN [op |-> "get_online_doctors", status |-> 200,
      doctors |-> safe, count |-> Len(safe)]

\* get_online_doctors(): the online entries without their FCM token
get_online_doctors(docs, t) ==
  LET online == _online_doctors(docs, t)
      safe == [i \in 1..Len(online) |->
                 [doctor_id |-> online[i].key, name |-> online[i].val.name,
                  signed_in_at |-> online[i].val.signed_in_at,
                  last_seen |-> online[i].val.last_seen, available |-> TRUE]]
  IN [op |-> "get_online_doctors", status |-> 200,
      doctors |-> safe, count |-> Len(safe)]

\* a poll that still returns a record on the last instant of its window
get_pending_calls_inclusive(doctor_id, pend, t) ==
  LET cutoff == t - PendingWindow
      mine == SelectSeq(pend, LAMBDA e :
                e.val.doctor_id = doctor_id /\ e.val.created_at >= cutoff)
  IN [op |-> "get_pending_calls", doctor_id |-> doctor_id,
      calls |-> [i \in 1..Len(mine) |->
                   [call_id |-> mine[i].key, doctor_id |-> mine[i].val.doctor_id,
                    patient_name |-> mine[i].val.patient_name,
                    video_call_url |-> mine[i].val.video_call_url,
                    created_at |-> mine[i].val.created_at]]]

\* get_pending_calls(doctor_id)
get_pending_calls(doctor_id, pend, t) ==
  LET cutoff == t - PendingWindow
      mine == SelectSeq(pend, LAMBDA e :
                e.val.doctor_id = doctor_id /\ e.val.created_at > cutoff)
  IN [op |-> "get_pending_calls", doctor_id |-> doctor_id,
      calls |-> [i \in 1..Len(mine) |->
                   [call_id |-> mine[i].key, doctor_id |-> mine[i].val.doctor_id,
                    patient_name |-> mine[i].val.patient_name,
                    video_call_url |-> mine[i].val.video_call_url,
                    created_at |-> mine[i].val.created_at]]]

\* an acknowledgement that leaves the record in the store
acknowledge_call_keep(call_id, pend) ==
  [pending_calls |-> pend,
   resp |-> [op |-> "acknowledge_call", key |-> call_id, status |-> 200,
             known |-> call_id \in DictKeys(pend)]]

\* acknowledge_call(call_id): call_id is a key of pending_calls; known
\* records whether the key was in the store when the request arrived
acknowledge_call(call_id, pend) ==
  [pending_calls |-> DictDel(pend, call_id),
   resp |-> [op |-> "acknowledge_call", key |-> call_id, status |-> 200,
             known |-> call_id \in DictKeys(pend)]]

\* ---------------------------------------------------------------- state
NoRecord ==
  [key |-> <<>>,
   val |-> [doctor_id |-> None, patient_name |-> None, video_call_url |-> <<>>,
            created_at |-> 0]]

\* a thread with no request: op names the handler a thread runs, pc its
\* position, the other fields are the handler's locals
Idle ==
  [op |-> "idle", pc |-> "idle", doctor_id |-> None, call_id |-> None,
   patient |-> None, online |-> <<>>, targets |-> <<>>, i |-> 0, success |-> 0,
   outcomes |-> <<>>, record |-> NoRecord, written |-> {}]

Init ==
  /\ SERVICE_ACCOUNT_JSON \in {"", "service-account-json"}
  /\ doctors = <<>>
  /\ pending_calls = <<>>
  /\ now = 0
  /\ ticks = 0
  /\ updates = 0
  /\ resp = [op |-> "start"]
  /\ threads = [th \in Threads |-> Idle]

\* a request that may change the registry or the store is accepted
Accept ==
  /\ updates < MaxUpdates
  /\ updates' = updates + 1

\* the identity of a newly created dict: one no registered dict has
NewRef(docs) ==
  CHOOSE r \in 1..(Len(docs) + 1) : \A i \in 1..Len(docs) : docs[i].val.ref # r

DoctorSignin ==
  /\ Accept
  /\ \E supplied \in DoctorIds \cup {None, ""}, uuid \in DoctorIds,
        name \in Names, token \in RawTokens :
       LET r == doctor_signin(supplied, uuid, name, token, doctors, now, NewRef(doctors))
       IN /\ doctors' = r.doctors
          /\ resp' = r.resp
  /\ UNCHANGED <<SERVICE_ACCOUNT_JSON, threads, pending_calls, now, ticks>>

DoctorHeartbeat ==
  /\ Accept
  /\ \E doctor_id \in DoctorIds :
       LET r == doctor_heartbeat(doctor_id, doctors, now)
       IN /\ doctors' = r.doctors
          /\ resp' = r.resp
  /\ UNCHANGED <<SERVICE_ACCOUNT_JSON, threads, pending_calls, now, ticks>>

DoctorSignout ==
  /\ Accept
  /\ \E doctor_id \in DoctorIds :
       LET r == doctor_signout(doctor_id, doctors, now)
       IN /\ doctors' = r.doctors
          /\ resp' = r.resp
  /\ UNCHANGED <<SERVICE_ACCOUNT_JSON, threads, pending_calls, now, ticks>>

GetOnlineDoctors ==
  /\ resp' = get_online_doctors(doctors, now)
  /\ UNCHANGED <<SERVICE_ACCOUNT_JSON, threads, doctors, pending_calls, now, ticks, updates>>

InitiateCall ==
  /\ Accept
  /\ \E call_doctor_id \in DoctorIds \cup {None}, patient \in Patients,
        uuid \in CallIds :
       \E answers \in [1..Len(resolve_targets(call_doctor_id, doctors,
                                 _online_doctors(doctors, now))) -> Outcomes] :
         LET r == initiate_call(call_doctor_id, patient, uuid, answers, doctors,
                                pending_calls, SERVICE_ACCOUNT_JSON, now)
         IN /\ doctors' = r.doctors
            /\ pending_calls' = r.pending_calls
            /\ resp' = r.resp
  /\ UNCHANGED <<SERVICE_ACCOUNT_JSON, threads, now, ticks>>

GetPendingCalls ==
  /\ \E doctor_id \in DoctorIds :
       resp' = get_pending_calls(doctor_id, pending_calls, now)
  /\ UNCHANGED <<SERVICE_ACCOUNT_JSON, threads, doctors, pending_calls, now, ticks, updates>>

\* the ids a client can acknowledge: the call_id a poll returned (the
\* store key) or the call_id that initiate_call returned (no "_doctor" part)
AckIds ==
  {PendingKey(c, d) : c \in CallIds, d \in DoctorIds} \cup {<<c>> : c \in CallIds}

AcknowledgeCall ==
  /\ Accept
  /\ \E call_id \in AckIds :
       LET r == acknowledge_call(call_id, pending_calls)
       IN /\ pending_calls' = r.pending_calls
          /\ resp' = r.resp
  /\ UNCHANGED <<SERVICE_ACCOUNT_JSON, threads, doctors, now, ticks>>

\* time passes between two requests
Tick ==
  /\ ticks < MaxTicks
  /\ \E dt \in TickSteps : now' = now + dt
  /\ ticks' = ticks + 1
  /\ resp' = [op |-> "tick"]
  /\ UNCHANGED <<SERVICE_ACCOUNT_JSON, threads, doctors, pending_calls, updates>>

Next ==
  \/ DoctorSignin
  \/ DoctorHeartbeat
  \/ DoctorSignout
  \/ GetOnlineDoctors
  \/ InitiateCall
  \/ GetPendingCalls
  \/ AcknowledgeCall
  \/ Tick

Spec == Init /\ [][Next]_vars

\* ---------------------------------------- the two windows, second by second
\* The same handlers with the clock stepping to the seconds on both sides
\* of the 90 s and the 120 s cutoffs; the gateway is configured, clients
\* supply their id and every push is delivered.
InitWindows ==
  /\ Init
  /\ SERVICE_ACCOUNT_JSON = "service-account-json"

SigninSupplied ==
  /\ Accept
  /\ \E supplied \in DoctorIds, name \in Names, token \in WindowTokens :
       LET r == doctor_signin(supplied, supplied, name, token, doctors, now,
                              NewRef(doctors))
       IN /\ doctors' = r.doctors
          /\ resp' = r.resp
  /\ UNCHANGED <<SERVICE_ACCOUNT_JSON, threads, pending_calls, now, ticks>>

CallDelivered ==
  /\ Accept
  /\ \E call_doctor_id \in DoctorIds \cup {None}, patient \in Patients,
        uuid \in CallIds :
       LET n == Len(resolve_targets(call_doctor_id, doctors,
                                    _online_doctors(doctors, now)))
           r == initiate_call(call_doctor_id, patient, uuid,
                              [i \in 1..n |-> "Delivered"], doctors,
                              pending_calls, SERVICE_ACCOUNT_JSON, now)
       IN /\ doctors' = r.doctors
          /\ pending_calls' = r.pending_calls
          /\ resp' = r.resp
  /\ UNCHANGED <<SERVICE_ACCOUNT_JSON, threads, now, ticks>>

TickWindow ==
  /\ ticks < MaxTicks
  /\ \E dt \in WindowSteps : now' = now + dt
  /\ ticks' = ticks + 1
  /\ resp' = [op |-> "tick"]
  /\ UNCHANGED <<SERVICE_ACCOUNT_JSON, threads, doctors, pending_calls, updates>>

NextWindows ==
  \/ SigninSupplied
  \/ DoctorHeartbeat
  \/ GetOnlineDoctors
  \/ CallDelivered
  \/ GetPendingCalls
  \/ AcknowledgeCall
  \/ TickWindow

SpecWindows == InitWindows /\ [][NextWindows]_vars

\* --------------------------------------------- requests running in threads
\* The endpoints are plain `def` functions, which the framework runs in a
\* thread pool with no lock around doctors or pending_calls. Here a handler
\* is a sequence of steps, one per access to the shared dicts, and the
\* steps of the requests in flight interleave. A KeyError that a handler
\* does not catch ends its request with status 500. Single dict operations
\* (one lookup, one store, one pop, list(doctors.items())) are one step;
\* the eviction loop of send_fcm is taken as one step as well.
FreeThread == CHOOSE th \in Threads :
  /\ threads[th].op = "idle"
  /\ \A other \in Threads : threads[other].op = "idle" => th <= other

Running == [op |-> "running"]

\* line 191: if data.doctor_id in doctors
HeartbeatCheck ==
  /\ Accept
  /\ \E th \in Threads : threads[th].op = "idle"
  /\ \E doctor_id \in DoctorIds :
       IF doctor_id \in DictKeys(doctors)
       THEN /\ threads' = [threads EXCEPT ![FreeThread] =
                 [Idle EXCEPT !.op = "doctor_heartbeat", !.pc = "update",
                              !.doctor_id = doctor_id]]
            /\ resp' = Running
       ELSE /\ threads' = threads
            /\ resp' = doctor_heartbeat(doctor_id, doctors, now).resp
  /\ UNCHANGED <<SERVICE_ACCOUNT_JSON, doctors, pending_calls, now, ticks>>

\* line 192-193: doctors[data.doctor_id]["last_seen"] = time.time()
HeartbeatUpdate ==
  \E th \in Threads :
    /\ threads[th].op = "doctor_heartbeat"
    /\ threads[th].pc = "update"
    /\ LET doctor_id == threads[th].doctor_id
       IN IF doctor_id \in DictKeys(doctors)
          THEN LET r == doctor_heartbeat(doctor_id, doctors, now)
               IN /\ doctors' = r.doctors
                  /\ resp' = r.resp
          ELSE /\ doctors' = doctors
               /\ resp' = [op |-> "doctor_heartbeat", doctor_id |-> doctor_id,
                           status |-> 500, doctors_online |-> 0,
                           was_online |-> FALSE]
    /\ threads' = [threads EXCEPT ![th] = Idle]
    /\ UNCHANGED <<SERVICE_ACCOUNT_JSON, pending_calls, now, ticks, updates>>

\* line 202: if data.doctor_id in doctors
SignoutCheck ==
  /\ Accept
  /\ \E th \in Threads : threads[th].op = "idle"
  /\ \E doctor_id \in DoctorIds :
       IF doctor_id \in DictKeys(doctors)
       THEN /\ threads' = [threads EXCEPT ![FreeThread] =
                 [Idle EXCEPT !.op = "doctor_signout", !.pc = "delete",
                              !.doctor_id = doctor_id]]
            /\ resp' = Running
       ELSE /\ threads' = threads
            /\ resp' = doctor_signout(doctor_id, doctors, now).resp
  /\ UNCHANGED <<SERVICE_ACCOUNT_JSON, doctors, pending_calls, now, ticks>>

\* line 203-206: name = doctors[id]["name"]; del doctors[id]
SignoutDelete ==
  \E th \in Threads :
    /\ threads[th].op = "doctor_signout"
    /\ threads[th].pc = "delete"
    /\ LET doctor_id == threads[th].doctor_id
       IN IF doctor_id \in DictKeys(doctors)
          THEN LET r == doctor_signout(doctor_id, doctors, now)
               IN /\ doctors' = r.doctors
                  /\ resp' = r.resp
          ELSE /\ doctors' = doctors
               /\ resp' = [op |-> "doctor_signout", doctor_id |-> doctor_id,
                           status |-> 500, doctors_online |-> 0,
                           known |-> FALSE]
    /\ threads' = [threads EXCEPT ![th] = Idle]
    /\ UNCHANGED <<SERVICE_ACCOUNT_JSON, pending_calls, now, ticks, updates>>

\* the response of a call that ended in an exception nothing catches
CallRaised(thr, error) ==
  [op |-> "initiate_call", doctor_id |-> thr.doctor_id, status |-> 500,
   error |-> error, call_id |-> None, video_call_url |-> <<>>,
   delivered |-> 0, attempted |-> Len(thr.outcomes), targets |-> thr.targets,
   outcomes |-> thr.outcomes, written |-> {}]

\* line 267-272: the response of a call that went through both loops
CallReturned(thr) ==
  [op |-> "initiate_call", doctor_id |-> thr.doctor_id, status |-> 200,
   error |-> None, call_id |-> thr.call_id,
   video_call_url |-> video_call_url(thr.call_id),
   delivered |-> thr.success, attempted |-> Len(thr.targets),
   targets |-> thr.targets, outcomes |-> thr.outcomes, written |-> thr.written]

\* line 226-234: online = _online_doctors(), the two early exits, call_id
CallSnapshot ==
  /\ Accept
  /\ \E th \in Threads : threads[th].op = "idle"
  /\ \E call_doctor_id \in DoctorIds \cup {None}, patient \in Patients,
        uuid \in CallIds :
       LET online == _online_doctors(doctors, now)
       IN IF Len(online) = 0
          THEN /\ threads' = threads
               /\ resp' = NoCall(call_doctor_id, 503, "Unavailable")
          ELSE IF ~gateway_configured(SERVICE_ACCOUNT_JSON)
          THEN /\ threads' = threads
               /\ resp' = NoCall(call_doctor_id, 500, "GatewayUnconfigured")
          ELSE /\ threads' = [threads EXCEPT ![FreeThread] =
                    [Idle EXCEPT !.op = "initiate_call", !.pc = "resolve",
                                 !.doctor_id = call_doctor_id, !.call_id = uuid,
                                 !.patient = patient, !.online = online]]
               /\ resp' = Running
  /\ UNCHANGED <<SERVICE_ACCOUNT_JSON, doctors, pending_calls, now, ticks>>

\* line 236-240: targets; doctors[d["doctor_id"]] raises KeyError for an id
\* of the snapshot that is no longer a key
CallResolve ==
  \E th \in Threads :
    /\ threads[th].op = "initiate_call"
    /\ threads[th].pc = "resolve"
    /\ LET thr == threads[th]
           explicit == Truthy(thr.doctor_id) /\ thr.doctor_id \in DictKeys(doctors)
       IN IF explicit \/ DictKeys(thr.online) \subseteq DictKeys(doctors)
          THEN /\ threads' = [threads EXCEPT ![th] =
                    [thr EXCEPT !.pc = "send", !.i = 1,
                                !.targets = resolve_targets(thr.doctor_id, doctors,
                                                            thr.online)]]
               /\ resp' = Running
          ELSE /\ threads' = [threads EXCEPT ![th] = Idle]
               /\ resp' = CallRaised(thr, "KeyError")
    /\ UNCHANGED <<SERVICE_ACCOUNT_JSON, doctors, pending_calls, now, ticks, updates>>

\* line 248-251: one send_fcm of the first loop
CallSend ==
  \E th \in Threads, answer \in ThreadOutcomes :
    /\ threads[th].op = "initiate_call"
    /\ threads[th].pc = "send"
    /\ LET thr == threads[th]
           r == send_fcm(thr.targets[thr.i].val.token, answer, doctors,
                         SERVICE_ACCOUNT_JSON)
           sent == [thr EXCEPT !.outcomes = Append(thr.outcomes, r.outcome),
                               !.success = thr.success + (IF r.ok THEN 1 ELSE 0)]
       IN /\ doctors' = r.doctors
          /\ IF r.raised
             THEN /\ threads' = [threads EXCEPT ![th] = Idle]
                  /\ resp' = CallRaised(sent, "Unhandled")
             ELSE /\ threads' = [threads EXCEPT ![th] =
                       IF thr.i < Len(thr.targets)
                       THEN [sent EXCEPT !.i = thr.i + 1]
                       ELSE [sent EXCEPT !.pc = "build", !.i = 1]]
                  /\ resp' = Running
    /\ UNCHANGED <<SERVICE_ACCOUNT_JSON, pending_calls, now, ticks, updates>>

\* the second loop moves on to its next target, or the call returns
NextTarget(th, thr) ==
  IF thr.i < Len(thr.targets)
  THEN /\ threads' = [threads EXCEPT ![th] =
            [thr EXCEPT !.pc = "build", !.i = thr.i + 1, !.record = NoRecord]]
       /\ resp' = Running
  ELSE /\ threads' = [threads EXCEPT ![th] = Idle]
       /\ resp' = CallReturned(thr)

\* line 259-266: target_id by identity, then the value of the new record is
\* built, time.time() included, before it is stored
CallBuild ==
  \E th \in Threads :
    /\ threads[th].op = "initiate_call"
    /\ threads[th].pc = "build"
    /\ LET thr == threads[th]
           target_id == FindByIdentity(doctors, thr.targets[thr.i])
       IN IF Truthy(target_id)
          THEN /\ threads' = [threads EXCEPT ![th] =
                    [thr EXCEPT !.pc = "insert",
                                !.record = [key |-> PendingKey(thr.call_id, target_id),
                                            val |-> [doctor_id |-> target_id,
                                                     patient_name |-> thr.patient,
                                                     video_call_url |-> video_call_url(thr.call_id),
                                                     created_at |-> now]]]]
               /\ resp' = Running
          ELSE NextTarget(th, thr)
    /\ UNCHANGED <<SERVICE_ACCOUNT_JSON, doctors, pending_calls, now, ticks, updates>>

\* line 261: pending_calls[key] = the record built
CallInsert ==
  \E th \in Threads :
    /\ threads[th].op = "initiate_call"
    /\ threads[th].pc = "insert"
    /\ LET thr == threads[th]
       IN /\ pending_calls' = DictSet(pending_calls, thr.record.key, thr.record.val)
          /\ NextTarget(th, [thr EXCEPT !.written = thr.written \cup {thr.record.key}])
    /\ UNCHANGED <<SERVICE_ACCOUNT_JSON, doctors, now, ticks, updates>>

InitThreads ==
  /\ Init
  /\ SERVICE_ACCOUNT_JSON = "service-account-json"

NextThreads ==
  \/ SigninSupplied
  \/ HeartbeatCheck
  \/ HeartbeatUpdate
  \/ SignoutCheck
  \/ SignoutDelete
  \/ CallSnapshot
  \/ CallResolve
  \/ CallSend
  \/ CallBuild
  \/ CallInsert
  \/ GetPendingCalls
  \/ AcknowledgeCall
  \/ Tick

SpecThreads == InitThreads /\ [][NextThreads]_vars

\* ------------------------------------------------------------ claims
\* online as the specification defines it: now - lastSeenAt < livenessWindow
SpecOnlineIds(docs, t) ==
  {docs[i].key : i \in {j \in 1..Len(docs) : t - docs[j].val.last_seen < LivenessWindow}}

TargetIds(r) == {r.targets[i].key : i \in 1..Len(r.targets)}

\* the targets whose push ended in a permanent failure
EvictedIds(r) ==
  {r.targets[i].key : i \in {j \in 1..Len(r.outcomes) : r.outcomes[j] = "Unregistered"}}

HasRecord(pend, call_id, target_id) ==
  /\ PendingKey(call_id, target_id) \in DictKeys(pend)
  /\ DictGet(pend, PendingKey(call_id, target_id)).doctor_id = target_id
  /\ DictGet(pend, PendingKey(call_id, target_id)).video_call_url = video_call_url(call_id)

\* C1: when initiate_call returns success, the store holds a PendingCall
\* record for the call and every resolved target, whatever the push outcome.
C1_Claim ==
  (resp.op = "initiate_call" /\ resp.status = 200)
    => \A t \in TargetIds(resp) : HasRecord(pending_calls, resp.call_id, t)

\* C2: a call with an explicit target id that names no online target fails
\* with Unavailable, attempts no push and writes no record (stated for a
\* configured gateway, where no other failure can come first).
C2_Claim ==
  [][(resp'.op = "initiate_call" /\ Truthy(resp'.doctor_id)
        /\ SERVICE_ACCOUNT_JSON # ""
        /\ resp'.doctor_id \notin SpecOnlineIds(doctors, now))
       => (/\ resp'.error = "Unavailable"
           /\ resp'.outcomes = <<>>
           /\ pending_calls' = pending_calls)]_vars

\* C3: a call without explicit target, with N >= 1 online targets and a
\* configured gateway, writes exactly N records, one per online target, all
\* with the returned call id and its session URL.
C3_Claim ==
  [][(resp'.op = "initiate_call" /\ ~Truthy(resp'.doctor_id)
        /\ SERVICE_ACCOUNT_JSON # ""
        /\ SpecOnlineIds(doctors, now) # {})
       => (/\ resp'.status = 200
           /\ resp'.written =
                {PendingKey(resp'.call_id, t) : t \in SpecOnlineIds(doctors, now)}
           /\ Cardinality(resp'.written) = Cardinality(SpecOnlineIds(doctors, now))
           /\ \A t \in SpecOnlineIds(doctors, now) :
                HasRecord(pending_calls', resp'.call_id, t))]_vars

\* C4: a call with an explicit online target id pushes to that target only
\* and writes exactly one record, addressed to that target.
C4_Claim ==
  [][(resp'.op = "initiate_call" /\ Truthy(resp'.doctor_id)
        /\ SERVICE_ACCOUNT_JSON # ""
        /\ resp'.doctor_id \in SpecOnlineIds(doctors, now))
       => (/\ TargetIds(resp') = {resp'.doctor_id}
           /\ Len(resp'.outcomes) = 1
           /\ resp'.status = 200
           /\ resp'.written = {PendingKey(resp'.call_id, resp'.doctor_id)}
           /\ HasRecord(pending_calls', resp'.call_id, resp'.doctor_id))]_vars

\* C5: when every push of a call fails transiently (rejected with a
\* retryable status, or timed out), the call returns success with
\* delivered = 0 and attempted = N, the N records exist and nobody is evicted.
C5_Claim ==
  (/\ resp.op = "initiate_call"
   /\ Len(resp.outcomes) > 0
   /\ \A i \in 1..Len(resp.outcomes) : resp.outcomes[i] \in {"Rejected", "Timeout"})
    => (/\ resp.status = 200
        /\ resp.delivered = 0
        /\ resp.attempted = Len(resp.targets)
        /\ Cardinality(resp.written) = Len(resp.targets)
        /\ \A t \in TargetIds(resp) :
             /\ HasRecord(pending_calls, resp.call_id, t)
             /\ t \in DictKeys(doctors))

\* C6: with no target online, a call fails with Unavailable and changes
\* neither the registry nor the store, however many targets are registered.
C6_NoOnlineUnavailable ==
  [][(resp'.op = "initiate_call" /\ SpecOnlineIds(doctors, now) = {})
       => (/\ resp'.status = 503
           /\ resp'.error = "Unavailable"
           /\ resp'.outcomes = <<>>
           /\ resp'.written = {}
           /\ doctors' = doctors
           /\ pending_calls' = pending_calls)]_vars

\* a call failed with Unavailable while targets were registered, all aged out
C6_Witness ==
  /\ resp.op = "initiate_call"
  /\ resp.error = "Unavailable"
  /\ Len(doctors) >= 1
  /\ SpecOnlineIds(doctors, now) = {}

\* C7: with the gateway unconfigured and a target online, a call fails
\* with GatewayUnconfigured before any delivery: no push, no record, no
\* eviction.
C7_UnconfiguredFailsFirst ==
  [][(resp'.op = "initiate_call" /\ SERVICE_ACCOUNT_JSON = ""
        /\ SpecOnlineIds(doctors, now) # {})
       => (/\ resp'.status = 500
           /\ resp'.error = "GatewayUnconfigured"
           /\ resp'.outcomes = <<>>
           /\ resp'.written = {}
           /\ doctors' = doctors
           /\ pending_calls' = pending_calls)]_vars

\* a call was refused as unconfigured while a target was online
C7_Witness ==
  /\ resp.op = "initiate_call"
  /\ resp.error = "GatewayUnconfigured"
  /\ SERVICE_ACCOUNT_JSON = ""
  /\ SpecOnlineIds(doctors, now) # {}

\* C8: a target whose push ended in a permanent failure is gone from the
\* registry and from the online list as soon as the call returns; the online
\* list names registered targets only; and an absent id comes back only by a
\* sign-in under that id.
C8_PermanentFailureEvicts ==
  [][/\ resp'.op = "initiate_call"
          => \A t \in EvictedIds(resp') :
               /\ t \notin DictKeys(doctors')
               /\ \A j \in 1..Len(get_online_doctors(doctors', now').doctors) :
                    get_online_doctors(doctors', now').doctors[j].doctor_id # t
     /\ resp'.op = "get_online_doctors"
          => \A j \in 1..Len(resp'.doctors) :
               resp'.doctors[j].doctor_id \in DictKeys(doctors)
     /\ \A d \in DoctorIds :
          (d \notin DictKeys(doctors) /\ d \in DictKeys(doctors'))
            => (resp'.op = "doctor_signin" /\ resp'.doctor_id = d)]_vars

\* a push to a target with a fresh heartbeat failed permanently and the
\* target is no longer registered
C8_Witness ==
  /\ resp.op = "initiate_call"
  /\ \E i \in 1..Len(resp.outcomes) :
       /\ resp.outcomes[i] = "Unregistered"
       /\ now - resp.targets[i].val.last_seen < LivenessWindow
       /\ resp.targets[i].key \notin DictKeys(doctors)

\* C9 as claimed: a sign-in under a registered id overwrites that record,
\* refreshes last_seen, returns that id, and neither the number of registered
\* targets nor the online count increases.
C9_Claim ==
  [][(resp'.op = "doctor_signin" /\ Truthy(resp'.supplied)
        /\ resp'.supplied \in DictKeys(doctors))
       => (/\ resp'.doctor_id = resp'.supplied
           /\ Len(doctors') = Len(doctors)
           /\ DictKeys(doctors') = DictKeys(doctors)
           /\ DictGet(doctors', resp'.supplied).last_seen = now'
           /\ Cardinality(SpecOnlineIds(doctors', now'))
                <= Cardinality(SpecOnlineIds(doctors, now))
           /\ resp'.doctors_online <= Cardinality(SpecOnlineIds(doctors, now)))]_vars

\* C9 as amended: the number of registered targets does not change and the
\* returned id is the supplied one; the online count stays the same when that
\* target was online and rises by exactly one when it had aged out; every
\* other record is untouched.
C9_Upsert ==
  [][(resp'.op = "doctor_signin" /\ Truthy(resp'.supplied)
        /\ resp'.supplied \in DictKeys(doctors))
       => (/\ resp'.doctor_id = resp'.supplied
           /\ Len(doctors') = Len(doctors)
           /\ DictKeys(doctors') = DictKeys(doctors)
           /\ DictGet(doctors', resp'.supplied).last_seen = now'
           /\ \A i \in 1..Len(doctors) :
                doctors[i].key # resp'.supplied => doctors'[i] = doctors[i]
           /\ Cardinality(SpecOnlineIds(doctors', now'))
                = Cardinality(SpecOnlineIds(doctors, now))
                  + (IF resp'.supplied \in SpecOnlineIds(doctors, now) THEN 0 ELSE 1)
           /\ resp'.doctors_online = Cardinality(SpecOnlineIds(doctors', now')))]_vars

\* a registered target that had aged out signed in again under its id
C9_Witness ==
  /\ resp.op = "doctor_signin"
  /\ Truthy(resp.supplied)
  /\ resp.known
  /\ ~resp.was_online
  /\ resp.doctor_id \in SpecOnlineIds(doctors, now)

\* C10 as claimed: the supplied id is reused only if it is supplied and
\* registered; otherwise the returned id is new, different from the supplied
\* one and from every registered id.
C10_Claim ==
  [][resp'.op = "doctor_signin"
       => IF Truthy(resp'.supplied) /\ resp'.supplied \in DictKeys(doctors)
          THEN resp'.doctor_id = resp'.supplied
          ELSE /\ resp'.doctor_id # resp'.supplied
               /\ resp'.doctor_id \notin DictKeys(doctors)]_vars

\* C10 as amended: a supplied non-empty id is reused whether or not it is
\* registered; an id is minted only when none is supplied, and it is the
\* uuid drawn; in both cases the returned id is registered afterwards.
C10_ReuseSupplied ==
  [][resp'.op = "doctor_signin"
       => /\ Truthy(resp'.supplied)
               => (resp'.doctor_id = resp'.supplied /\ resp'.minted = None)
          /\ ~Truthy(resp'.supplied)
               => (Truthy(resp'.minted) /\ resp'.doctor_id = resp'.minted)
          /\ resp'.doctor_id \in DictKeys(doctors')
          /\ DictGet(doctors', resp'.doctor_id).last_seen = now']_vars

\* a sign-in supplied an id the registry did not know and got it back
C10_Witness ==
  /\ resp.op = "doctor_signin"
  /\ Truthy(resp.supplied)
  /\ ~resp.known
  /\ resp.doctor_id = resp.supplied
  /\ updates >= 2

\* the entry of doctor_id with every field but last_seen
SansLastSeen(docs, doctor_id) ==
  LET v == DictGet(docs, doctor_id)
  IN [name |-> v.name, token |-> v.token, signed_in_at |-> v.signed_in_at,
      ref |-> v.ref]

\* C11: a heartbeat for a registered id sets its lastSeenAt to now, leaves
\* every other field and every other target alone and returns the online
\* count; a heartbeat for an id that is not registered answers NotFound and
\* leaves the registry as it was, so it never creates a target.
C11_Heartbeat ==
  [][resp'.op = "doctor_heartbeat"
       => LET id == resp'.doctor_id
          IN /\ pending_calls' = pending_calls
             /\ IF id \in DictKeys(doctors)
                THEN /\ resp'.status = 200
                     /\ DictKeys(doctors') = DictKeys(doctors)
                     /\ Len(doctors') = Len(doctors)
                     /\ DictGet(doctors', id).last_seen = now'
                     /\ SansLastSeen(doctors', id) = SansLastSeen(doctors, id)
                     /\ \A d \in DictKeys(doctors) \ {id} :
                          DictGet(doctors', d) = DictGet(doctors, d)
                     /\ resp'.doctors_online
                          = Cardinality(SpecOnlineIds(doctors', now'))
                ELSE /\ resp'.status = 404
                     /\ doctors' = doctors]_vars

\* a heartbeat for an id that is not registered, after earlier requests,
\* was answered NotFound and the id is still not registered
C11_Witness ==
  /\ resp.op = "doctor_heartbeat"
  /\ resp.status = 404
  /\ resp.doctor_id \notin DictKeys(doctors)
  /\ updates >= 2

\* C12: deregister answers success, removes the target from the registry
\* and from the online list and leaves every other target alone; for an id
\* that is not registered (a second deregister, or an id never registered)
\* it answers success and the registry is unchanged.
C12_Signout ==
  [][resp'.op = "doctor_signout"
       => LET id == resp'.doctor_id
          IN /\ resp'.status = 200
             /\ id \notin DictKeys(doctors')
             /\ \A i \in 1..Len(get_online_doctors(doctors', now').doctors) :
                  get_online_doctors(doctors', now').doctors[i].doctor_id # id
             /\ DictKeys(doctors') = DictKeys(doctors) \ {id}
             /\ \A d \in DictKeys(doctors') : DictGet(doctors', d) = DictGet(doctors, d)
             /\ (id \notin DictKeys(doctors) => doctors' = doctors)
             /\ resp'.doctors_online = Cardinality(SpecOnlineIds(doctors', now'))
             /\ pending_calls' = pending_calls]_vars

\* a deregister for an id that was not registered any more succeeded
C12_Witness ==
  /\ resp.op = "doctor_signout"
  /\ ~resp.known
  /\ resp.status = 200
  /\ updates >= 2

\* the ids a get_online_doctors response lists
ListedIds(r) == {r.doctors[i].doctor_id : i \in 1..Len(r.doctors)}

\* C13: listOnline lists a registered target exactly when now - lastSeenAt
\* is below 90: listed 89 s after its last heartbeat, not listed 90 s and
\* 91 s after it. Time passing removes no target, and a heartbeat of an
\* aged-out target puts it back in the online set with its record kept.
C13_LivenessWindow ==
  [][/\ resp'.op = "get_online_doctors"
          => /\ ListedIds(resp') = SpecOnlineIds(doctors, now)
             /\ resp'.count = Cardinality(SpecOnlineIds(doctors, now))
             /\ \A d \in DictKeys(doctors) :
                  LET age == now - DictGet(doctors, d).last_seen
                  IN /\ age = 89 => d \in ListedIds(resp')
                     /\ age \in {90, 91} => d \notin ListedIds(resp')
     /\ resp'.op = "tick" => doctors' = doctors
     /\ (resp'.op = "doctor_heartbeat" /\ resp'.doctor_id \in DictKeys(doctors)
           /\ resp'.doctor_id \notin SpecOnlineIds(doctors, now))
          => /\ resp'.doctor_id \in ListedIds(get_online_doctors(doctors', now'))
             /\ DictKeys(doctors') = DictKeys(doctors)
             /\ DictGet(doctors', resp'.doctor_id).signed_in_at
                  = DictGet(doctors, resp'.doctor_id).signed_in_at]_vars

\* a target registered 90 s ago and silent since was off the online list,
\* still registered, and its heartbeat has just brought it back
C13_Witness ==
  /\ resp.op = "doctor_heartbeat"
  /\ resp.status = 200
  /\ ~resp.was_online
  /\ now - DictGet(doctors, resp.doctor_id).signed_in_at = 90
  /\ resp.doctor_id \in ListedIds(get_online_doctors(doctors, now))

\* the keys of the records a get_pending_calls response returns
ReturnedKeys(r) == {r.calls[i].call_id : i \in 1..Len(r.calls)}

\* C14: getPending(targetId) returns each stored (not acknowledged) record
\* addressed to targetId whose age is below 120, once, with its stored
\* fields, and nothing else: a record is returned 119 s after its creation
\* and left out 121 s after it, and no record of another target is returned.
C14_PendingWindow ==
  [][resp'.op = "get_pending_calls"
       => /\ ReturnedKeys(resp')
               = {pending_calls[i].key : i \in
                    {j \in 1..Len(pending_calls) :
                       /\ pending_calls[j].val.doctor_id = resp'.doctor_id
                       /\ now - pending_calls[j].val.created_at < 120}}
          /\ Len(resp'.calls) = Cardinality(ReturnedKeys(resp'))
          /\ \A i \in 1..Len(resp'.calls) :
               LET c == resp'.calls[i]
               IN /\ c.doctor_id = resp'.doctor_id
                  /\ c.call_id \in DictKeys(pending_calls)
                  /\ DictGet(pending_calls, c.call_id).created_at = c.created_at
                  /\ DictGet(pending_calls, c.call_id).video_call_url = c.video_call_url
          /\ \A j \in 1..Len(pending_calls) :
               LET e == pending_calls[j]
               IN e.val.doctor_id = resp'.doctor_id
                    => /\ now - e.val.created_at = 119 => e.key \in ReturnedKeys(resp')
                       /\ now - e.val.created_at = 121 => e.key \notin ReturnedKeys(resp')]_vars

\* a poll returned a record created 119 s earlier while the store also
\* held a record addressed to another target
C14_Witness ==
  /\ resp.op = "get_pending_calls"
  /\ \E i \in 1..Len(resp.calls) : now - resp.calls[i].created_at = 119
  /\ \E j \in 1..Len(pending_calls) : pending_calls[j].val.doctor_id # resp.doctor_id

\* C15: acknowledge answers success and removes the record it names, so no
\* getPending returns it from then on; the other records and the registry
\* are untouched, and for an id that names no stored record (never issued,
\* or already acknowledged) nothing changes at all. A key that is not in
\* the store comes back only when a later call writes a record under it.
C15_Acknowledge ==
  [][/\ resp'.op = "acknowledge_call"
          => /\ resp'.status = 200
             /\ resp'.key \notin DictKeys(pending_calls')
             /\ \A d \in DoctorIds :
                  resp'.key \notin ReturnedKeys(get_pending_calls(d, pending_calls', now'))
             /\ pending_calls' = SelectSeq(pending_calls, LAMBDA e : e.key # resp'.key)
             /\ (resp'.key \notin DictKeys(pending_calls)
                   => pending_calls' = pending_calls)
             /\ doctors' = doctors
     /\ \A k \in DictKeys(pending_calls') \ DictKeys(pending_calls) :
          resp'.op = "initiate_call" /\ k \in resp'.written]_vars

\* a stored record was acknowledged and is gone from the store
C15_Witness ==
  /\ resp.op = "acknowledge_call"
  /\ resp.known
  /\ resp.status = 200
  /\ resp.key \notin DictKeys(pending_calls)

\* C19 as claimed: a call removes from the registry only the targets whose
\* own push ended in a permanent failure; every other target, one registered
\* with the same push address included, stays registered and unchanged.
C19_Claim ==
  [][resp'.op = "initiate_call"
       => /\ DictKeys(doctors) \ DictKeys(doctors') \subseteq EvictedIds(resp')
          /\ \A d \in DictKeys(doctors) \ EvictedIds(resp') :
               /\ d \in DictKeys(doctors')
               /\ DictGet(doctors', d) = DictGet(doctors, d)]_vars

\* the push addresses the gateway reported as no longer valid
DeadTokens(r) ==
  {r.targets[i].val.token : i \in {j \in 1..Len(r.outcomes) : r.outcomes[j] = "Unregistered"}}

\* C19 as the code has it: a call removes exactly the targets registered
\* with a push address that a push of this call found permanently invalid;
\* every target with another push address stays registered, unchanged and in
\* place.
C19_EvictsByToken ==
  [][resp'.op = "initiate_call"
       => /\ doctors' = SelectSeq(doctors, LAMBDA e : e.val.token \notin DeadTokens(resp'))
          /\ \A d \in DictKeys(doctors) :
               DictGet(doctors, d).token \notin DeadTokens(resp')
                 => /\ d \in DictKeys(doctors')
                    /\ DictGet(doctors', d) = DictGet(doctors, d)]_vars

\* two targets shared a push address, the push to the first failed
\* permanently, the push to the second did not, and both are gone
C19_Witness ==
  /\ resp.op = "initiate_call"
  /\ Len(resp.outcomes) = 2
  /\ resp.targets[1].val.token = resp.targets[2].val.token
  /\ resp.targets[1].key # resp.targets[2].key
  /\ resp.outcomes[1] = "Unregistered"
  /\ resp.outcomes[2] # "Unregistered"
  /\ resp.targets[1].key \notin DictKeys(doctors)
  /\ resp.targets[2].key \notin DictKeys(doctors)

\* C16: the sequence a getPending returns is ordered by createdAt, oldest
\* first, whatever calls and acknowledgements came before and however they
\* interleaved.
C16_Claim ==
  resp.op = "get_pending_calls"
    => \A i, j \in 1..Len(resp.calls) :
         i < j => resp.calls[i].created_at <= resp.calls[j].created_at

\* C17: a heartbeat ends with success or NotFound and a deregister ends
\* with success, however they interleave with each other and with an
\* eviction of the same target: no request fails because the target was
\* removed between its existence check and its update or delete.
C17_Claim ==
  /\ resp.op = "doctor_heartbeat" => resp.status \in {200, 404}
  /\ resp.op = "doctor_signout" => resp.status = 200

\* C18: the target resolution of a call works on one consistent snapshot
\* of the registry: no call fails because a target of its online snapshot
\* was removed from the registry before the per-target lookup.
C18_Claim ==
  resp.op = "initiate_call" => resp.error # "KeyError"

\* C20: a call that returns has written a pending record for every target
\* it resolved that is registered when it returns and whose push address no
\* push of this call found invalid; a target that registered again under
\* its id while the call was in flight is such a target.
C20_Claim ==
  (resp.op = "initiate_call" /\ resp.status = 200)
    => \A i \in 1..Len(resp.targets) :
         (/\ resp.targets[i].key \in DictKeys(doctors)
          /\ resp.targets[i].val.token \notin DeadTokens(resp))
           => PendingKey(resp.call_id, resp.targets[i].key) \in resp.written

====
